---- MODULE Spec2Model ----
(***************************************************************************)
(* magitulator: rewriting of a segment of a commit history.                *)
(*                                                                         *)
(* The model follows src/src/mirror.rs (mirror, get_commits_to_rewrite,    *)
(* generate_descriptors, execute_mirror, create_branch); src/src/main.rs   *)
(* holds the same algorithm with descriptor extraction and replay fused.   *)
(* The object store is content addressed: an id names one content, and     *)
(* writing a content that the store already holds returns the id it has.   *)
(***************************************************************************)
EXTENDS Integers, Sequences, FiniteSets, TLC

(* ------------------------------ bounds -------------------------------- *)

\* number of commits the repository holds before the tool runs
MaxCommits == 3
\* most parents an original commit has
MaxParents == 2
\* how many times the tool is run, one run after the other, on one repository
MaxRuns == 2
\* objects of the stores that copy_object_recursive works between
MaxObjects == 3
\* entries of a tree
MaxEntries == 2

(* ----------------------------- constants ------------------------------ *)

BRANCH_POSTFIX == "-magitied"
FixedName == "Dr. Magitulator"
OtherName == "alice"
TargetName == "feature"
\* Option::None of an object id: an id no object has
NoId == 0
\* Option::None of a commit's encoding
NoEncoding == "none"
\* mirror() has not returned
Running == "running"

Commits == 1..MaxCommits

ObjectIds == 1..MaxObjects

VARIABLES
    store,               \* the object database: commit id -> commit content
    refs,                \* the references: full name -> commit id
    pc,                  \* where the run of mirror() stands
    base,                \* argument base, a commit hash
    target,              \* argument target, a branch name
    dry_run,             \* argument dry_run
    base_id,             \* mirror: base_commit_id
    target_id,           \* mirror: target_commit_id
    commits_to_rewrite,  \* mirror: the resolved list, oldest first
    descriptors,         \* mirror: the descriptors of the list
    idx,                 \* execute_mirror: index of the next descriptor
    parent_map,          \* execute_mirror: original id -> rewritten id
    last_new_oid,        \* execute_mirror: id written last, or NoId
    result,              \* what mirror() returned: Running, "ok" or "err"
    writes,              \* ids returned by write_object in this run, in order
    ref_edits,           \* reference names edited in this run, in order
    printed,             \* lines printed by the dry run, in order
    run,                 \* number of the current run
    history,             \* per run begun: the store and references it began with,
                         \* and the table and tip the run before it ended with
    contents,            \* content addressing: object id -> the content it names
    src_repo,            \* copy_object_recursive: the source store
    dst_repo,            \* copy_object_recursive: the destination store
    stack,               \* the calls of copy_object_recursive in progress,
                         \* outermost first: [oid, i], i the entry of the tree
                         \* that is copied next, 0 before the object is looked at
    copy_pc,             \* "idle", "run" or "done"
    copy_oid,            \* argument oid of the outermost call
    copy_result,         \* Running, "ok" or the CopyError returned
    copy_ret,            \* the id returned, or NoId
    src_reads,           \* ids looked up in the source, in order
    dst_writes,          \* ids written to the destination, in order
    copied,              \* ids whose copy has returned Ok within the outermost call
    failed_path,         \* ids of the calls in progress when an error was returned
    calls                \* per outermost call: the destination it began with and
                         \* the number of reads and writes made before it

vars == <<store, refs, pc, base, target, dry_run, base_id, target_id,
          commits_to_rewrite, descriptors, idx, parent_map, last_new_oid,
          result, writes, ref_edits, printed, run, history,
          contents, src_repo, dst_repo, stack, copy_pc, copy_oid, copy_result,
          copy_ret, src_reads, dst_writes, copied, failed_path, calls>>

mirror_vars == <<store, refs, pc, base, target, dry_run, base_id, target_id,
                 commits_to_rewrite, descriptors, idx, parent_map, last_new_oid,
                 result, writes, ref_edits, printed, run, history>>

copy_vars == <<contents, src_repo, dst_repo, stack, copy_pc, copy_oid, copy_result,
               copy_ret, src_reads, dst_writes, copied, failed_path, calls>>

(* ------------------------------ helpers ------------------------------- *)

Range(s) == {s[i] : i \in 1..Len(s)}

Reverse(s) == [i \in 1..Len(s) |-> s[Len(s) + 1 - i]]

Max(S) == CHOOSE x \in S : \A y \in S : y <= x

\* sequences of distinct elements of S, of length at most n
DistinctSeqs(S, n) ==
    UNION {{s \in [1..k -> S] : \A i, j \in 1..k : i # j => s[i] # s[j]} : k \in 0..n}

(* --------------------------- the repository --------------------------- *)

\* Commits 2k-1 and 2k carry the same tree, message, e-mails and dates, so two
\* original commits may differ in nothing but their parents and names.
Payload(c) == (c + 1) \div 2

Sig(who, nm, p) == [name |-> nm, email |-> <<who, "mail", p>>, time |-> p]

OrigCommit(c, ps, nm) ==
    [tree          |-> <<"tree", Payload(c)>>,
     parents       |-> ps,
     author        |-> Sig("author", nm, Payload(c)),
     committer     |-> Sig("committer", nm, Payload(c)),
     encoding      |-> IF Payload(c) % 2 = 0 THEN "ISO-8859-1" ELSE NoEncoding,
     message       |-> <<"message", Payload(c)>>,
     extra_headers |-> IF Payload(c) % 2 = 0
                         THEN << <<"gpgsig", "sig">>, <<"mergetag", "tag">> >>
                         ELSE << >>]

\* the parent lists of commits 1..n: a commit's parents are older commits
\* (the ids of the original commits are numbered oldest first)
RECURSIVE Graphs(_)
Graphs(n) ==
    IF n = 0 THEN {<< >>}
    ELSE {Append(g, ps) : g \in Graphs(n - 1),
                          ps \in DistinctSeqs(1..(n - 1), MaxParents)}

\* the sets of commits whose object the store has lost (a truncated or
\* damaged history): at most one
MissingSets == {{}} \cup {{c} : c \in Commits}

RefName(branch) == "refs/heads/" \o branch

(* ------------------------- resolve_commit_id -------------------------- *)

\* rev_parse_single, object, peel_to_commit: a revision is <<"hash", id>> or
\* <<"branch", name>>; the result is NoId when the name does not resolve or
\* the object is not in the store
resolve_commit_id(st, rf, rev) ==
    LET id == IF rev[1] = "hash" THEN rev[2]
              ELSE IF RefName(rev[2]) \in DOMAIN rf THEN rf[RefName(rev[2])]
              ELSE NoId
    IN  IF id \in DOMAIN st THEN id ELSE NoId

(* --------------------------- ancestry walk ---------------------------- *)

ParentIds(st, c) == IF c \in DOMAIN st THEN Range(st[c].parents) ELSE {}

RECURSIVE Grow(_, _)
Grow(st, S) ==
    LET T == S \cup UNION {ParentIds(st, c) : c \in S}
    IN  IF T = S THEN S ELSE Grow(st, T)

\* mutant: the walk passes over the ids whose object is missing
AncestryOfPresent(st, start) == Grow(st, {start}) \cap DOMAIN st

\* every id the walk from start comes to, by following parent links
Ancestry(st, start) == Grow(st, {start})

\* the walk reads every commit it comes to: it fails on a missing object
WalkFails(st, start) == ~(Ancestry(st, start) \subseteq DOMAIN st)

\* the orders in which the topological walk may yield the ancestry of start:
\* every id once, a commit before each of its parents
TopoWalks(st, start) ==
    LET A == Ancestry(st, start)
        n == Cardinality(A)
    IN  {w \in [1..n -> A] :
            /\ \A i, j \in 1..n : i # j => w[i] # w[j]
            /\ \A i, j \in 1..n : w[j] \in ParentIds(st, w[i]) => i < j}

(* ----------------------- get_commits_to_rewrite ----------------------- *)

\* mutant: the base itself is left out of the exclusion set
BaseCommitsBelowBase(st, b, t) == IF b # t THEN Ancestry(st, b) \ {b} ELSE {}

\* mutant: the walk of the base is made also when base is target
BaseCommitsAlways(st, b, t) == Ancestry(st, b)

\* mutant: only the base itself is excluded, not its ancestry
BaseCommitsOnlyBase(st, b, t) == IF b # t THEN {b} ELSE {}

\* the exclusion set
BaseCommits(st, b, t) == IF b # t THEN Ancestry(st, b) ELSE {}

\* mutant: the base is appended without the test that the list lacks it
get_commits_to_rewrite_push(st, b, t, walk) ==
    LET base_commits == BaseCommits(st, b, t)
        kept == SelectSeq(walk, LAMBDA c : c \notin base_commits)
        withBase == IF b \notin base_commits
                      THEN IF Len(st[b].parents) = 0 THEN Append(kept, b) ELSE kept
                      ELSE kept
    IN  Reverse(withBase)

\* mutant: the list is not reversed, it stays newest first
get_commits_to_rewrite_newest_first(st, b, t, walk) ==
    LET base_commits == BaseCommits(st, b, t)
        kept == SelectSeq(walk, LAMBDA c : c \notin base_commits)
    IN  IF b \notin base_commits /\ b \notin Range(kept)
          THEN IF Len(st[b].parents) = 0 THEN Append(kept, b) ELSE kept
          ELSE kept

\* mutant: the test of the filter is turned round
get_commits_to_rewrite_inverted(st, b, t, walk) ==
    LET base_commits == BaseCommits(st, b, t)
        kept == SelectSeq(walk, LAMBDA c : c \in base_commits)
        withBase == IF b \notin base_commits /\ b \notin Range(kept)
                      THEN IF Len(st[b].parents) = 0 THEN Append(kept, b) ELSE kept
                      ELSE kept
    IN  Reverse(withBase)

\* the list for base b and target t, when the walk of the target yields walk
get_commits_to_rewrite(st, b, t, walk) ==
    LET base_commits == BaseCommits(st, b, t)
        kept == SelectSeq(walk, LAMBDA c : c \notin base_commits)
        withBase == IF b \notin base_commits /\ b \notin Range(kept)
                      THEN IF Len(st[b].parents) = 0 THEN Append(kept, b) ELSE kept
                      ELSE kept
    IN  Reverse(withBase)

\* whether get_commits_to_rewrite appends the base to the list it has kept
AppendsBase(st, b, t, walk) ==
    LET base_commits == BaseCommits(st, b, t)
        kept == SelectSeq(walk, LAMBDA c : c \notin base_commits)
    IN  /\ b \notin base_commits
        /\ b \notin Range(kept)
        /\ Len(st[b].parents) = 0

(* ------------------------ generate_descriptors ------------------------ *)

\* mutant: the name is left as it is
SetNameKept(sig) == sig

SetName(sig) == [sig EXCEPT !.name = FixedName]

\* mutant: the committer's time is set to the time of the run
DescriptorStamped(st, old_id) ==
    [original_id         |-> old_id,
     original_parent_ids |-> st[old_id].parents,
     tree                |-> st[old_id].tree,
     author              |-> SetName(st[old_id].author),
     committer           |-> [SetName(st[old_id].committer) EXCEPT !.time = MaxCommits + run],
     encoding            |-> st[old_id].encoding,
     message             |-> st[old_id].message,
     extra_headers       |-> st[old_id].extra_headers]

\* mutant: the committer is taken from the author
DescriptorCommitterFromAuthor(st, old_id) ==
    [original_id         |-> old_id,
     original_parent_ids |-> st[old_id].parents,
     tree                |-> st[old_id].tree,
     author              |-> SetName(st[old_id].author),
     committer           |-> SetName(st[old_id].author),
     encoding            |-> st[old_id].encoding,
     message             |-> st[old_id].message,
     extra_headers       |-> st[old_id].extra_headers]

Descriptor(st, old_id) ==
    [original_id         |-> old_id,
     original_parent_ids |-> st[old_id].parents,
     tree                |-> st[old_id].tree,
     author              |-> SetName(st[old_id].author),
     committer           |-> SetName(st[old_id].committer),
     encoding            |-> st[old_id].encoding,
     message             |-> st[old_id].message,
     extra_headers       |-> st[old_id].extra_headers]

generate_descriptors(st, ids) == [i \in 1..Len(ids) |-> Descriptor(st, ids[i])]

(* --------------------------- execute_mirror --------------------------- *)

\* mutant: the table is not consulted
MapParentVerbatim(pm, parent_id) == parent_id

\* a parent that was rewritten is replaced by its new id, any other is kept
MapParent(pm, parent_id) ==
    IF parent_id \in DOMAIN pm THEN pm[parent_id] ELSE parent_id

NewParentIds(pm, d) ==
    [i \in 1..Len(d.original_parent_ids) |-> MapParent(pm, d.original_parent_ids[i])]

NewCommit(pm, d) ==
    [tree          |-> d.tree,
     parents       |-> NewParentIds(pm, d),
     author        |-> d.author,
     committer     |-> d.committer,
     encoding      |-> d.encoding,
     message       |-> d.message,
     extra_headers |-> d.extra_headers]

\* write_object: the id of a content is the id the store already has for it,
\* and an id no object has yet otherwise
WriteId(st, content) ==
    IF \E i \in DOMAIN st : st[i] = content
      THEN CHOOSE i \in DOMAIN st : st[i] = content
      ELSE Max(DOMAIN st \cup Commits) + 1

WriteObject(st, content) ==
    [i \in DOMAIN st \cup {WriteId(st, content)} |->
        IF i \in DOMAIN st THEN st[i] ELSE content]

\* mutant: the entry is filed under the new id
MapInsertUnderNewId(pm, k, v) == [x \in DOMAIN pm \cup {v} |-> IF x = v THEN v ELSE pm[x]]

\* HashMap::insert
MapInsert(pm, k, v) == [x \in DOMAIN pm \cup {k} |-> IF x = k THEN v ELSE pm[x]]

(* ---------------------------- create_branch --------------------------- *)

\* mutant: the postfix is left out
FullRefNameNoPostfix(target_name) == "refs/heads/" \o target_name

FullRefName(target_name) == "refs/heads/" \o (target_name \o BRANCH_POSTFIX)

\* the reference edit: PreviousValue::Any, the reference is created or moved
EditReference(rf, name, oid) ==
    [n \in DOMAIN rf \cup {name} |-> IF n = name THEN oid ELSE rf[n]]

(* ------------------------------ the runs ------------------------------ *)

EmptyMap == [x \in {} |-> NoId]

\* no copy_object_recursive is under way, between stores without objects
CopyOff ==
    /\ contents = << >>
    /\ src_repo = << >>
    /\ dst_repo = << >>
    /\ stack = << >>
    /\ copy_pc = "idle"
    /\ copy_oid = NoId
    /\ copy_result = Running
    /\ copy_ret = NoId
    /\ src_reads = << >>
    /\ dst_writes = << >>
    /\ copied = {}
    /\ failed_path = {}
    /\ calls = << >>

Init ==
    /\ CopyOff
    /\ \E g \in Graphs(MaxCommits), named \in SUBSET Commits, gone \in MissingSets :
          \* a lost object decides how the walks end, the names and the
          \* derived reference what is written after them: a store that has
          \* lost an object is taken with no commit named and no derived
          \* reference
          /\ gone # {} => named = {}
          \* the commits that bear the fixed name already: none, one, all
          \* but one or all
          /\ Cardinality(named) <= 1 \/ Cardinality(named) >= MaxCommits - 1
          /\ store = [c \in Commits \ gone |->
                        OrigCommit(c, g[c], IF c \in named THEN FixedName ELSE OtherName)]
          /\ \A c, d \in Commits : c # d =>
                OrigCommit(c, g[c], IF c \in named THEN FixedName ELSE OtherName)
                  # OrigCommit(d, g[d], IF d \in named THEN FixedName ELSE OtherName)
    /\ \E tip \in Commits, old \in {NoId} \cup {1} :
          \* the branch is at one of the two newest commits: what is newer
          \* than target is one commit, its child or a stranger to it
          /\ tip >= MaxCommits - 1
          /\ old # NoId => DOMAIN store = Commits
          /\ refs = [n \in {RefName(TargetName)} \cup
                           (IF old = NoId THEN {} ELSE {FullRefName(TargetName)}) |->
                       IF n = RefName(TargetName) THEN tip ELSE old]
    /\ pc = "idle"
    /\ base = NoId
    /\ target = ""
    /\ dry_run = FALSE
    /\ base_id = NoId
    /\ target_id = NoId
    /\ commits_to_rewrite = << >>
    /\ descriptors = << >>
    /\ idx = 1
    /\ parent_map = EmptyMap
    /\ last_new_oid = NoId
    /\ result = Running
    /\ writes = << >>
    /\ ref_edits = << >>
    /\ printed = << >>
    /\ run = 1
    /\ history = << [store |-> store, refs |-> refs,
                      parent_map |-> EmptyMap, last_new_oid |-> NoId] >>

\* the variables of a run that has not begun
Fresh ==
    /\ base_id' = NoId
    /\ target_id' = NoId
    /\ commits_to_rewrite' = << >>
    /\ descriptors' = << >>
    /\ idx' = 1
    /\ parent_map' = EmptyMap
    /\ last_new_oid' = NoId
    /\ result' = Running
    /\ writes' = << >>
    /\ ref_edits' = << >>
    /\ printed' = << >>

\* mirror(base, target, dry_run) is called and resolves its two arguments
Mirror(b, t, dr) ==
    /\ pc = "idle"
    /\ base' = b
    /\ target' = t
    /\ dry_run' = dr
    /\ LET bid == resolve_commit_id(store, refs, <<"hash", b>>)
           tid == resolve_commit_id(store, refs, <<"branch", t>>)
       IN  IF bid = NoId
             THEN /\ base_id' = NoId /\ target_id' = NoId
                  /\ result' = "err" /\ pc' = "done"
           ELSE IF tid = NoId
             THEN /\ base_id' = bid /\ target_id' = NoId
                  /\ result' = "err" /\ pc' = "done"
           ELSE /\ base_id' = bid /\ target_id' = tid
                /\ result' = Running /\ pc' = "resolve"
    /\ UNCHANGED copy_vars
    /\ UNCHANGED <<store, refs, commits_to_rewrite, descriptors, idx, parent_map,
                   last_new_oid, writes, ref_edits, printed, run, history>>

\* get_commits_to_rewrite returns, and mirror returns at once on an empty list
GetCommitsToRewrite ==
    /\ pc = "resolve"
    /\ ~(base_id # target_id /\ WalkFails(store, base_id))
    /\ ~WalkFails(store, target_id)
    /\ \E walk \in TopoWalks(store, target_id) :
          /\ commits_to_rewrite' = get_commits_to_rewrite(store, base_id, target_id, walk)
          /\ IF commits_to_rewrite' = << >>
               THEN result' = "ok" /\ pc' = "done"
               ELSE result' = Running /\ pc' = "describe"
    /\ UNCHANGED copy_vars
    /\ UNCHANGED <<store, refs, base, target, dry_run, base_id, target_id, descriptors,
                   idx, parent_map, last_new_oid, writes, ref_edits, printed, run,
                   history>>

\* one of the two ancestry walks meets an object the store does not have
GetCommitsToRewriteFails ==
    /\ pc = "resolve"
    /\ \/ base_id # target_id /\ WalkFails(store, base_id)
       \/ WalkFails(store, target_id)
    /\ result' = "err"
    /\ pc' = "done"
    /\ UNCHANGED copy_vars
    /\ UNCHANGED <<store, refs, base, target, dry_run, base_id, target_id,
                   commits_to_rewrite, descriptors, idx, parent_map, last_new_oid,
                   writes, ref_edits, printed, run, history>>

\* mutant: the dry_run flag is not looked at
GenerateDescriptorsThenExecute ==
    /\ pc = "describe"
    /\ descriptors' = generate_descriptors(store, commits_to_rewrite)
    /\ pc' = "execute"
    /\ UNCHANGED copy_vars
    /\ UNCHANGED <<store, refs, base, target, dry_run, base_id, target_id,
                   commits_to_rewrite, idx, parent_map, last_new_oid, result, writes,
                   ref_edits, printed, run, history>>

GenerateDescriptors ==
    /\ pc = "describe"
    /\ descriptors' = generate_descriptors(store, commits_to_rewrite)
    /\ pc' = IF dry_run THEN "print" ELSE "execute"
    /\ UNCHANGED copy_vars
    /\ UNCHANGED <<store, refs, base, target, dry_run, base_id, target_id,
                   commits_to_rewrite, idx, parent_map, last_new_oid, result, writes,
                   ref_edits, printed, run, history>>

\* a read of generate_descriptors fails (find_object, decode, author, ...)
GenerateDescriptorsFails ==
    /\ pc = "describe"
    /\ result' = "err"
    /\ pc' = "done"
    /\ UNCHANGED copy_vars
    /\ UNCHANGED <<store, refs, base, target, dry_run, base_id, target_id,
                   commits_to_rewrite, descriptors, idx, parent_map, last_new_oid,
                   writes, ref_edits, printed, run, history>>

\* the line of a commit: the head of its id, the author's time and e-mail,
\* and the first line of the message cut to 15 characters
print_commit_descriptor_oneline(descriptor) ==
    <<"commit", descriptor.original_id, descriptor.author.time,
      descriptor.author.email, <<"first line, 15 chars", descriptor.message>> >>

DryRunHeader == <<"--- Commits that would be rewritten (dry run) ---">>

\* the dry run prints its header and the descriptors, newest first, and
\* mirror returns
DryRun ==
    /\ pc = "print"
    /\ printed' = <<DryRunHeader>> \o
                    [i \in 1..Len(descriptors) |->
                        print_commit_descriptor_oneline(Reverse(descriptors)[i])]
    /\ result' = "ok"
    /\ pc' = "done"
    /\ UNCHANGED copy_vars
    /\ UNCHANGED <<store, refs, base, target, dry_run, base_id, target_id,
                   commits_to_rewrite, descriptors, idx, parent_map, last_new_oid,
                   writes, ref_edits, run, history>>

\* mutant: last_new_oid is set by the first turn only
ExecuteMirrorStepKeepsFirst ==
    /\ pc = "execute"
    /\ idx <= Len(descriptors)
    /\ LET descriptor == descriptors[idx]
           new_commit == NewCommit(parent_map, descriptor)
           new_oid    == WriteId(store, new_commit)
       IN  /\ store' = WriteObject(store, new_commit)
           /\ parent_map' = MapInsert(parent_map, descriptor.original_id, new_oid)
           /\ last_new_oid' = IF last_new_oid = NoId THEN new_oid ELSE last_new_oid
           /\ writes' = Append(writes, new_oid)
    /\ idx' = idx + 1
    /\ UNCHANGED copy_vars
    /\ UNCHANGED <<refs, pc, base, target, dry_run, base_id, target_id,
                   commits_to_rewrite, descriptors, result, ref_edits, printed, run,
                   history>>

\* one turn of the loop of execute_mirror
ExecuteMirrorStep ==
    /\ pc = "execute"
    /\ idx <= Len(descriptors)
    /\ LET descriptor == descriptors[idx]
           new_commit == NewCommit(parent_map, descriptor)
           new_oid    == WriteId(store, new_commit)
       IN  /\ store' = WriteObject(store, new_commit)
           /\ parent_map' = MapInsert(parent_map, descriptor.original_id, new_oid)
           /\ last_new_oid' = new_oid
           /\ writes' = Append(writes, new_oid)
    /\ idx' = idx + 1
    /\ UNCHANGED copy_vars
    /\ UNCHANGED <<refs, pc, base, target, dry_run, base_id, target_id,
                   commits_to_rewrite, descriptors, result, ref_edits, printed, run,
                   history>>

\* mutant: a failed write is passed over and the loop goes on
ExecuteMirrorWriteSkipped ==
    /\ pc = "execute"
    /\ idx <= Len(descriptors)
    /\ idx' = idx + 1
    /\ UNCHANGED copy_vars
    /\ UNCHANGED <<store, refs, pc, base, target, dry_run, base_id, target_id,
                   commits_to_rewrite, descriptors, parent_map, last_new_oid, result,
                   writes, ref_edits, printed, run, history>>

\* write_object fails: execute_mirror and mirror return the error
ExecuteMirrorWriteFails ==
    /\ pc = "execute"
    /\ idx <= Len(descriptors)
    /\ result' = "err"
    /\ pc' = "done"
    /\ UNCHANGED copy_vars
    /\ UNCHANGED <<store, refs, base, target, dry_run, base_id, target_id,
                   commits_to_rewrite, descriptors, idx, parent_map, last_new_oid,
                   writes, ref_edits, printed, run, history>>

\* execute_mirror has returned last_new_oid; mirror publishes it
CreateBranch ==
    /\ pc = "execute"
    /\ idx > Len(descriptors)
    /\ IF last_new_oid = NoId
         THEN /\ result' = "err"
              /\ UNCHANGED <<refs, ref_edits>>
         ELSE /\ refs' = EditReference(refs, FullRefName(target), last_new_oid)
              /\ ref_edits' = Append(ref_edits, FullRefName(target))
              /\ result' = "ok"
    /\ pc' = "done"
    /\ UNCHANGED copy_vars
    /\ UNCHANGED <<store, base, target, dry_run, base_id, target_id,
                   commits_to_rewrite, descriptors, idx, parent_map, last_new_oid,
                   writes, printed, run, history>>

\* the reference name is refused or the transaction fails
CreateBranchFails ==
    /\ pc = "execute"
    /\ idx > Len(descriptors)
    /\ last_new_oid # NoId
    /\ result' = "err"
    /\ pc' = "done"
    /\ UNCHANGED copy_vars
    /\ UNCHANGED <<store, refs, base, target, dry_run, base_id, target_id,
                   commits_to_rewrite, descriptors, idx, parent_map, last_new_oid,
                   writes, ref_edits, printed, run, history>>

\* the tool is run again, with the same arguments, on the repository that a
\* run that rewrote and published has left
Rerun ==
    /\ pc = "done"
    /\ run < MaxRuns
    /\ result = "ok"
    /\ ~dry_run
    /\ history' = Append(history, [store        |-> store,
                                   refs         |-> refs,
                                   parent_map   |-> parent_map,
                                   last_new_oid |-> last_new_oid])
    /\ run' = run + 1
    /\ Fresh
    /\ pc' = "idle"
    /\ UNCHANGED copy_vars
    /\ UNCHANGED <<store, refs, base, target, dry_run>>

Next ==
    \/ \E b \in Commits, dr \in BOOLEAN :
          /\ run = 1 \/ (b = base /\ dr = dry_run)
          /\ Mirror(b, TargetName, dr)
    \/ GetCommitsToRewrite
    \/ GetCommitsToRewriteFails
    \/ GenerateDescriptors
    \/ GenerateDescriptorsFails
    \/ DryRun
    \/ ExecuteMirrorStep
    \/ ExecuteMirrorWriteFails
    \/ CreateBranch
    \/ CreateBranchFails
    \/ Rerun

Spec == Init /\ [][Next]_vars

(* ----------------------- copy_object_recursive ------------------------ *)

\* the ids of S as a sequence, greatest first
RECURSIVE Descending(_)
Descending(S) ==
    IF S = {} THEN << >> ELSE <<Max(S)>> \o Descending(S \ {Max(S)})

\* objects: a kind and the data; the data of a tree are its entries, here
\* the ids of its children. A tag takes the branch of a commit.
Blob(n) == [kind |-> "blob", data |-> <<n>>]
CommitObject(n) == [kind |-> "commit", data |-> <<n>>]
Tree(entries) == [kind |-> "tree", data |-> entries]

\* what the object of an id may be: a tree refers to objects of lower ids
ObjectsFor(id) ==
    {Blob(id), CommitObject(id)} \cup
    {Tree(Descending(S)) : S \in {T \in SUBSET (1..(id - 1)) : Cardinality(T) <= MaxEntries}}

\* the content of every id, no two ids with the same content
ObjectGraphs ==
    {g \in [ObjectIds -> UNION {ObjectsFor(id) : id \in ObjectIds}] :
        /\ \A id \in ObjectIds : g[id] \in ObjectsFor(id)
        /\ \A a, b \in ObjectIds : a # b => g[a] # g[b]}

\* the hash: the id that names a content
ObjectIdOf(obj) == CHOOSE id \in DOMAIN contents : contents[id] = obj

\* mutant: the destination is never found to hold an object
has_object_never(repo, oid) == FALSE

\* Repository::has_object
has_object(repo, oid) == oid \in DOMAIN repo

\* tree.iter(): the ids of the children that the data of a tree decode to
TreeEntries(obj) == obj.data

\* mutant: the write is lost
write_buf_lost(repo, kind, data) == repo

\* Repository::write_buf: the store with the object under the id of its content
write_buf(repo, kind, data) ==
    LET obj == [kind |-> kind, data |-> data]
    IN  [id \in DOMAIN repo \cup {ObjectIdOf(obj)} |->
            IF id = ObjectIdOf(obj) THEN obj ELSE repo[id]]

\* Repository::write_blob
write_blob(repo, data) == write_buf(repo, "blob", data)

CopyErrors == {"FindObject", "WriteBlob", "Decode", "WriteBuf"}

\* the call in progress that runs, and the calls around it
Top == stack[Len(stack)]
Callers == SubSeq(stack, 1, Len(stack) - 1)

\* the outermost call that is under way or was made last
CallNow == calls[Len(calls)]

\* the running call returns Ok(id): to its caller, whose loop goes on to the
\* next entry, or out of the outermost call
ReturnOk(id) ==
    /\ copied' = copied \cup {Top.oid}
    /\ IF Len(stack) = 1
         THEN /\ stack' = << >>
              /\ copy_pc' = "done"
              /\ copy_result' = "ok"
              /\ copy_ret' = id
         ELSE /\ stack' = [Callers EXCEPT ![Len(stack) - 1].i = @ + 1]
              /\ UNCHANGED <<copy_pc, copy_result, copy_ret>>
    /\ UNCHANGED failed_path

\* the running call returns Err(e), which every caller hands on with `?`
ReturnErr(e) ==
    /\ stack' = << >>
    /\ copy_pc' = "done"
    /\ copy_result' = e
    /\ copy_ret' = NoId
    /\ failed_path' = {stack[k].oid : k \in 1..Len(stack)}
    /\ UNCHANGED copied

\* the outermost call is entered
CopyEnter(oid) ==
    /\ stack' = <<[oid |-> oid, i |-> 0]>>
    /\ copy_pc' = "run"
    /\ copy_oid' = oid
    /\ copy_result' = Running
    /\ copy_ret' = NoId
    /\ copied' = {}
    /\ failed_path' = {}
    /\ calls' = Append(calls, [dst    |-> dst_repo,
                               reads  |-> Len(src_reads),
                               writes |-> Len(dst_writes)])
    /\ UNCHANGED <<contents, src_repo, dst_repo, src_reads, dst_writes>>
    /\ UNCHANGED mirror_vars

\* copy_object_recursive(src_repo, dst_repo, oid) is called
CopyCall(oid) ==
    /\ copy_pc = "idle"
    /\ CopyEnter(oid)

\* it is called once more for the same id, after it has returned Ok
CopyAgain ==
    /\ copy_pc = "done"
    /\ copy_result = "ok"
    /\ Len(calls) = 1
    /\ CopyEnter(copy_oid)

\* the destination holds the id: it is returned
CopyMemoized ==
    /\ copy_pc = "run"
    /\ Top.i = 0
    /\ has_object(dst_repo, Top.oid)
    /\ ReturnOk(Top.oid)
    /\ UNCHANGED <<contents, src_repo, dst_repo, copy_oid, src_reads, dst_writes, calls>>
    /\ UNCHANGED mirror_vars

\* the source does not hold the id
CopyNotFound ==
    /\ copy_pc = "run"
    /\ Top.i = 0
    /\ ~has_object(dst_repo, Top.oid)
    /\ Top.oid \notin DOMAIN src_repo
    /\ src_reads' = Append(src_reads, Top.oid)
    /\ ReturnErr("FindObject")
    /\ UNCHANGED <<contents, src_repo, dst_repo, copy_oid, dst_writes, calls>>
    /\ UNCHANGED mirror_vars

\* a blob: its data are written to the destination
CopyBlob ==
    /\ copy_pc = "run"
    /\ Top.i = 0
    /\ ~has_object(dst_repo, Top.oid)
    /\ Top.oid \in DOMAIN src_repo
    /\ LET obj == src_repo[Top.oid]
           new_id == ObjectIdOf([kind |-> "blob", data |-> obj.data])
       IN  /\ obj.kind = "blob"
           /\ src_reads' = Append(src_reads, Top.oid)
           /\ dst_repo' = write_blob(dst_repo, obj.data)
           /\ dst_writes' = Append(dst_writes, new_id)
           /\ ReturnOk(new_id)
    /\ UNCHANGED <<contents, src_repo, copy_oid, calls>>
    /\ UNCHANGED mirror_vars

\* a blob, and the destination rejects the write
CopyBlobWriteFails ==
    /\ copy_pc = "run"
    /\ Top.i = 0
    /\ ~has_object(dst_repo, Top.oid)
    /\ Top.oid \in DOMAIN src_repo
    /\ src_repo[Top.oid].kind = "blob"
    /\ src_reads' = Append(src_reads, Top.oid)
    /\ ReturnErr("WriteBlob")
    /\ UNCHANGED <<contents, src_repo, dst_repo, copy_oid, dst_writes, calls>>
    /\ UNCHANGED mirror_vars

\* a tree: it is read from the source and the loop over its entries begins
CopyTree ==
    /\ copy_pc = "run"
    /\ Top.i = 0
    /\ ~has_object(dst_repo, Top.oid)
    /\ Top.oid \in DOMAIN src_repo
    /\ src_repo[Top.oid].kind = "tree"
    /\ src_reads' = Append(src_reads, Top.oid)
    /\ stack' = [stack EXCEPT ![Len(stack)].i = 1]
    /\ UNCHANGED <<contents, src_repo, dst_repo, copy_pc, copy_oid, copy_result,
                   copy_ret, dst_writes, copied, failed_path, calls>>
    /\ UNCHANGED mirror_vars

\* mutant: the loop goes on to the next entry without copying the child
CopyTreeSkipsChild ==
    /\ copy_pc = "run"
    /\ Top.i >= 1
    /\ Top.i <= Len(TreeEntries(src_repo[Top.oid]))
    /\ stack' = [stack EXCEPT ![Len(stack)].i = @ + 1]
    /\ UNCHANGED <<contents, src_repo, dst_repo, copy_pc, copy_oid, copy_result,
                   copy_ret, src_reads, dst_writes, copied, failed_path, calls>>
    /\ UNCHANGED mirror_vars

\* one turn of the loop: the child of the entry is copied by a call within
CopyTreeChild ==
    /\ copy_pc = "run"
    /\ Top.i >= 1
    /\ Top.i <= Len(TreeEntries(src_repo[Top.oid]))
    /\ LET child_oid == TreeEntries(src_repo[Top.oid])[Top.i]
       IN  stack' = Append(stack, [oid |-> child_oid, i |-> 0])
    /\ UNCHANGED <<contents, src_repo, dst_repo, copy_pc, copy_oid, copy_result,
                   copy_ret, src_reads, dst_writes, copied, failed_path, calls>>
    /\ UNCHANGED mirror_vars

\* one turn of the loop, and the entry does not decode
CopyTreeDecodeFails ==
    /\ copy_pc = "run"
    /\ Top.i >= 1
    /\ Top.i <= Len(TreeEntries(src_repo[Top.oid]))
    /\ ReturnErr("Decode")
    /\ UNCHANGED <<contents, src_repo, dst_repo, copy_oid, src_reads, dst_writes, calls>>
    /\ UNCHANGED mirror_vars

\* the loop has ended: the data of the tree are written to the destination
CopyTreeWrite ==
    /\ copy_pc = "run"
    /\ Top.i >= 1
    /\ Top.i = Len(TreeEntries(src_repo[Top.oid])) + 1
    /\ LET obj == src_repo[Top.oid]
           new_id == ObjectIdOf([kind |-> "tree", data |-> obj.data])
       IN  /\ dst_repo' = write_buf(dst_repo, "tree", obj.data)
           /\ dst_writes' = Append(dst_writes, new_id)
           /\ ReturnOk(new_id)
    /\ UNCHANGED <<contents, src_repo, copy_oid, src_reads, calls>>
    /\ UNCHANGED mirror_vars

\* the loop has ended, and the destination rejects the write
CopyTreeWriteFails ==
    /\ copy_pc = "run"
    /\ Top.i >= 1
    /\ Top.i = Len(TreeEntries(src_repo[Top.oid])) + 1
    /\ ReturnErr("WriteBuf")
    /\ UNCHANGED <<contents, src_repo, dst_repo, copy_oid, src_reads, dst_writes, calls>>
    /\ UNCHANGED mirror_vars

\* a commit or a tag: its id is returned and nothing is written
CopyCommit ==
    /\ copy_pc = "run"
    /\ Top.i = 0
    /\ ~has_object(dst_repo, Top.oid)
    /\ Top.oid \in DOMAIN src_repo
    /\ src_repo[Top.oid].kind = "commit"
    /\ src_reads' = Append(src_reads, Top.oid)
    /\ ReturnOk(Top.oid)
    /\ UNCHANGED <<contents, src_repo, dst_repo, copy_oid, dst_writes, calls>>
    /\ UNCHANGED mirror_vars

\* no run of mirror() is under way, in a repository without objects
MirrorOff ==
    /\ store = << >>
    /\ refs = << >>
    /\ pc = "idle"
    /\ base = NoId
    /\ target = ""
    /\ dry_run = FALSE
    /\ base_id = NoId
    /\ target_id = NoId
    /\ commits_to_rewrite = << >>
    /\ descriptors = << >>
    /\ idx = 1
    /\ parent_map = EmptyMap
    /\ last_new_oid = NoId
    /\ result = Running
    /\ writes = << >>
    /\ ref_edits = << >>
    /\ printed = << >>
    /\ run = 1
    /\ history = << >>

\* a source that lacks at most one object and a destination that holds at
\* most two
InitCopy ==
    /\ MirrorOff
    /\ \E g \in ObjectGraphs :
       \E gone \in {G \in SUBSET ObjectIds : Cardinality(G) <= 1} :
       \E held \in {H \in SUBSET ObjectIds : Cardinality(H) <= 2} :
          /\ contents = g
          /\ src_repo = [id \in ObjectIds \ gone |-> g[id]]
          /\ dst_repo = [id \in held |-> g[id]]
    /\ stack = << >>
    /\ copy_pc = "idle"
    /\ copy_oid = NoId
    /\ copy_result = Running
    /\ copy_ret = NoId
    /\ src_reads = << >>
    /\ dst_writes = << >>
    /\ copied = {}
    /\ failed_path = {}
    /\ calls = << >>

NextCopy ==
    \/ \E oid \in ObjectIds : CopyCall(oid)
    \/ CopyAgain
    \/ CopyMemoized
    \/ CopyNotFound
    \/ CopyBlob
    \/ CopyBlobWriteFails
    \/ CopyTree
    \/ CopyTreeChild
    \/ CopyTreeDecodeFails
    \/ CopyTreeWrite
    \/ CopyTreeWriteFails
    \/ CopyCommit

SpecCopy == InitCopy /\ [][NextCopy]_vars

(* ------------------------- terms of the claims ------------------------ *)

\* the commits reachable from c by parent links, c included
RECURSIVE Reachable(_, _)
Reachable(st, c) ==
    {c} \cup UNION {Reachable(st, p) : p \in ParentIds(st, c)}

\* get_commits_to_rewrite has returned its list to mirror
ListReturned ==
    \/ pc \in {"describe", "print", "execute"}
    \/ pc = "done" /\ (commits_to_rewrite # << >> \/ result = "ok")

NoDuplicates(s) == \A i, j \in 1..Len(s) : i # j => s[i] # s[j]

\* the store and the references the current run began with
StoreAtStart == history[run].store
RefsAtStart == history[run].refs

\* the run has ended well, having rewritten and published
Published == pc = "done" /\ result = "ok" /\ ~dry_run /\ commits_to_rewrite # << >>

(* ------------------------------- claims ------------------------------- *)

\* C1, as the claim states it: when base_id equals target_id the list that
\* get_commits_to_rewrite returns is empty and the run writes no object and
\* edits no reference.
C1_EmptyWhenBaseIsTarget ==
    (ListReturned /\ base_id = target_id) =>
        /\ commits_to_rewrite = << >>
        /\ writes = << >>
        /\ ref_edits = << >>

\* C1, amended: the list is empty exactly when base differs from target and
\* target is reachable from base; a run with an empty list writes no object
\* and edits no reference; when base_id equals target_id the list is never
\* empty, it holds target.
C1_EmptyOnlyWhenTargetInBase ==
    ListReturned =>
        /\ commits_to_rewrite = << >> <=>
              (base_id # target_id /\ target_id \in Reachable(StoreAtStart, base_id))
        /\ commits_to_rewrite = << >> =>
              /\ pc = "done" /\ result = "ok"
              /\ writes = << >> /\ ref_edits = << >>
              /\ store = StoreAtStart /\ refs = RefsAtStart
        /\ base_id = target_id => target_id \in Range(commits_to_rewrite)

\* a run with base equal to target has rewritten and published
C1_Witness ==
    /\ Published
    /\ base_id = target_id
    /\ writes # << >>
    /\ ref_edits # << >>

\* C2: when base equals target the list holds every commit reachable from
\* target exactly once; when moreover base has no parent the list is that
\* one root.
C2_WholeHistoryWhenBaseIsTarget ==
    (ListReturned /\ base_id = target_id) =>
        /\ Range(commits_to_rewrite) = Reachable(StoreAtStart, target_id)
        /\ NoDuplicates(commits_to_rewrite)
        /\ StoreAtStart[base_id].parents = << >> =>
              commits_to_rewrite = <<base_id>>

\* base equal to target with history below it, and base equal to target at a root
C2_Witness ==
    /\ ListReturned
    /\ base_id = target_id
    /\ Len(commits_to_rewrite) >= 3
    /\ StoreAtStart[commits_to_rewrite[1]].parents = << >>

\* C3: for base different from target the list holds exactly the commits
\* reachable from target that are not reachable from base, each once.
C3_TargetMinusBase ==
    (ListReturned /\ base_id # target_id) =>
        /\ Range(commits_to_rewrite) =
              Reachable(StoreAtStart, target_id) \ Reachable(StoreAtStart, base_id)
        /\ NoDuplicates(commits_to_rewrite)

\* base is a proper ancestor of target and has ancestors of its own, which
\* the list leaves out with it
C3_Witness ==
    /\ ListReturned
    /\ base_id # target_id
    /\ commits_to_rewrite # << >>
    /\ StoreAtStart[base_id].parents # << >>
    /\ base_id \in Reachable(StoreAtStart, target_id)

\* the commits a run with these arguments has to rewrite
Batch ==
    IF base_id = target_id
      THEN Reachable(StoreAtStart, target_id)
      ELSE Reachable(StoreAtStart, target_id) \ Reachable(StoreAtStart, base_id)

\* C4: a rewritten commit has as many parents as its original, in the same
\* order; the i-th is the rewritten id of the original's i-th parent when
\* that parent is in the rewritten set, and the original's i-th parent
\* itself otherwise.
C4_ParentsRemapped ==
    LET batch == Batch
    IN  \A o \in DOMAIN parent_map :
            LET old == StoreAtStart[o].parents
                new == store[parent_map[o]].parents
            IN  /\ Len(new) = Len(old)
                /\ \A k \in 1..Len(old) :
                      IF old[k] \in batch
                        THEN old[k] \in DOMAIN parent_map /\ new[k] = parent_map[old[k]]
                        ELSE new[k] = old[k]

\* a commit with two parents, one rewritten to another id and one of the
\* excluded base kept as it is, has been rewritten and the run has published
C4_Witness ==
    /\ Published
    /\ \E o \in DOMAIN parent_map :
          LET old == StoreAtStart[o].parents
              new == store[parent_map[o]].parents
          IN  /\ Len(old) = 2
              /\ \E k, l \in 1..2 :
                    /\ old[k] \in Batch /\ new[k] # old[k]
                    /\ old[l] \in Reachable(StoreAtStart, base_id) /\ new[l] = old[l]

\* the commits to rewrite form one chain: none has two parents
LinearChain == \A o \in Batch : Len(StoreAtStart[o].parents) <= 1

\* C5: the rewrite of a linear chain of N commits produces N ids, one per
\* commit and no two the same; the sole parent of each new commit is the new
\* id of the original's parent, but for the oldest, which keeps the parent
\* of its original.
C5_LinearChain ==
    (Published /\ LinearChain) =>
        LET batch == Batch
        IN  /\ DOMAIN parent_map = batch
            /\ Len(writes) = Cardinality(batch)
            /\ Cardinality({parent_map[o] : o \in batch}) = Cardinality(batch)
            /\ Range(writes) = {parent_map[o] : o \in batch}
            /\ \A o \in batch :
                  LET old == StoreAtStart[o].parents
                      new == store[parent_map[o]].parents
                  IN  IF old = << >> THEN new = << >>
                      ELSE IF old[1] \in batch THEN new = <<parent_map[old[1]]>>
                      ELSE new = old

\* a chain of two commits on top of an excluded base has been rewritten
C5_Witness ==
    /\ Published
    /\ LinearChain
    /\ base_id # target_id
    /\ Cardinality(Batch) >= 2
    /\ \E o \in Batch : /\ StoreAtStart[o].parents = <<base_id>>
                        /\ store[parent_map[o]].parents = <<base_id>>

\* C6: a commit the engine has written has the tree, message, encoding and
\* extra headers of its original, and the e-mail and time of its author and
\* of its committer; the parents and the two names alone may differ.
C6_OnlyParentsAndNames ==
    \A i \in 1..Len(writes) :
        LET old == StoreAtStart[commits_to_rewrite[i]]
            new == store[writes[i]]
        IN  /\ new.tree = old.tree
            /\ new.message = old.message
            /\ new.encoding = old.encoding
            /\ new.extra_headers = old.extra_headers
            /\ new.author.email = old.author.email
            /\ new.author.time = old.author.time
            /\ new.committer.email = old.committer.email
            /\ new.committer.time = old.committer.time
            /\ new.author.name = "Dr. Magitulator"
            /\ new.committer.name = "Dr. Magitulator"

\* a commit with an encoding, extra headers and other names has been rewritten
C6_Witness ==
    \E i \in 1..Len(writes) :
        LET old == StoreAtStart[commits_to_rewrite[i]]
            new == store[writes[i]]
        IN  /\ old.encoding # NoEncoding
            /\ old.extra_headers # << >>
            /\ old.author.name # FixedName
            /\ new # old
            /\ new.parents # old.parents

\* C7: after a run that rewrote and published, with X the id written last,
\* refs/heads/<target>-magitied points to X, whether the reference was there
\* before or not; it is the one reference edited, once, and every other
\* reference, that of the target among them, is as it was.
C7_DerivedRefPointsToTip ==
    Published =>
        /\ "refs/heads/feature-magitied" \in DOMAIN refs
        /\ refs["refs/heads/feature-magitied"] = writes[Len(writes)]
        /\ ref_edits = <<"refs/heads/feature-magitied">>
        /\ DOMAIN refs = DOMAIN RefsAtStart \cup {"refs/heads/feature-magitied"}
        /\ \A n \in DOMAIN RefsAtStart :
              n # "refs/heads/feature-magitied" => refs[n] = RefsAtStart[n]
        /\ refs["refs/heads/feature"] = target_id

\* the derived reference was there before the run and pointed elsewhere
C7_Witness ==
    /\ Published
    /\ "refs/heads/feature-magitied" \in DOMAIN RefsAtStart
    /\ RefsAtStart["refs/heads/feature-magitied"] # refs["refs/heads/feature-magitied"]

\* C8: a run that ends with an error has edited no reference and has written
\* the commits before the point of failure and none after it; and whenever
\* a reference has been edited, every commit of the batch has been written.
C8_NoPublishOnError ==
    /\ result = "err" =>
          /\ pc = "done"
          /\ ref_edits = << >>
          /\ refs = RefsAtStart
          /\ Len(writes) <= Len(commits_to_rewrite)
          /\ Len(writes) = idx - 1
          /\ DOMAIN parent_map = {commits_to_rewrite[i] : i \in 1..Len(writes)}
          /\ DOMAIN store = DOMAIN StoreAtStart \cup Range(writes)
    /\ (ref_edits # << >> \/ refs # RefsAtStart) =>
          /\ result = "ok"
          /\ commits_to_rewrite # << >>
          /\ Len(writes) = Len(commits_to_rewrite)
          /\ DOMAIN parent_map = Range(commits_to_rewrite)
          /\ \A o \in Range(commits_to_rewrite) : parent_map[o] \in DOMAIN store

\* a write has failed in the middle of the batch: the commits before it are
\* in the store, and no reference was edited
C8_Witness ==
    /\ result = "err"
    /\ writes # << >>
    /\ Len(writes) < Len(commits_to_rewrite)
    /\ \E i \in 1..Len(writes) : writes[i] \notin DOMAIN StoreAtStart

\* a commit of the batch names a parent whose object the store does not have
\* (an id without object is in no translation table either)
DanglingParent ==
    \E c \in Batch \cap DOMAIN StoreAtStart :
        \E p \in Range(StoreAtStart[c].parents) :
            p \notin DOMAIN StoreAtStart /\ p \notin DOMAIN parent_map

\* C9: when a commit of the batch names a parent that is in neither the
\* translation table nor the store, the run ends with an error and edits no
\* reference; no object is taken out of the store.
C9_MissingParentAborts ==
    (target_id # NoId /\ DanglingParent) =>
        /\ pc = "done" => result = "err"
        /\ pc \in {"resolve", "done"}
        /\ ref_edits = << >>
        /\ refs = RefsAtStart
        /\ \A i \in DOMAIN StoreAtStart : i \in DOMAIN store /\ store[i] = StoreAtStart[i]

\* base and target resolved, a commit of the batch has a parent without
\* object, and the run has ended with an error
C9_Witness ==
    /\ target_id # NoId
    /\ base_id # target_id
    /\ Reachable(StoreAtStart, base_id) \subseteq DOMAIN StoreAtStart
    /\ DanglingParent
    /\ pc = "done"
    /\ result = "err"

\* C10: a second run with the same base and target on the same store ends
\* with the translation table and the tip of the first; it adds no object to
\* the store and leaves the derived reference where it was.
C10_SecondRunSame ==
    run >= 2 =>
        /\ store = StoreAtStart
        /\ Published =>
              /\ parent_map = history[run].parent_map
              /\ last_new_oid = history[run].last_new_oid
              /\ refs = RefsAtStart
              /\ refs["refs/heads/feature-magitied"] = last_new_oid

\* the second run has rewritten two commits, to ids other than their own
C10_Witness ==
    /\ run = 2
    /\ Published
    /\ Len(writes) >= 2
    /\ \A o \in DOMAIN parent_map : parent_map[o] # o

\* the lines of the dry run that stand for a commit
CommitLines == SelectSeq(printed, LAMBDA l : l[1] = "commit")

\* C13: a dry run writes no object and edits no reference, and when it has
\* ended it has printed one line for each commit of the list and no other
\* commit line; the one line besides is the header, printed when the list
\* is not empty.
C13_DryRunOnlyPrints ==
    dry_run =>
        /\ writes = << >>
        /\ ref_edits = << >>
        /\ store = StoreAtStart
        /\ refs = RefsAtStart
        /\ parent_map = EmptyMap
        /\ (pc = "done" /\ result = "ok") =>
              /\ Len(CommitLines) = Len(commits_to_rewrite)
              /\ \A i \in 1..Len(commits_to_rewrite) :
                    Cardinality({k \in 1..Len(CommitLines) :
                                    CommitLines[k][2] = commits_to_rewrite[i]}) = 1
              /\ Len(printed) = IF commits_to_rewrite = << >> THEN 0
                                ELSE Len(commits_to_rewrite) + 1

\* a dry run over two commits has ended
C13_Witness ==
    /\ dry_run
    /\ pc = "done"
    /\ result = "ok"
    /\ Len(commits_to_rewrite) >= 2
    /\ Len(CommitLines) >= 2

\* C14, as the claim states it: when base is not an ancestor of target the
\* list is the whole history of target.
C14_NotAncestorMeansWholeHistory ==
    (ListReturned /\ base_id \notin Reachable(StoreAtStart, target_id)) =>
        Range(commits_to_rewrite) = Reachable(StoreAtStart, target_id)

\* C14, amended: when the histories of base and target share no commit the
\* list is the whole history of target, and a run rewrites all of it.
C14_DisjointMeansWholeHistory ==
    (ListReturned /\ Reachable(StoreAtStart, base_id)
                        \cap Reachable(StoreAtStart, target_id) = {}) =>
        /\ Range(commits_to_rewrite) = Reachable(StoreAtStart, target_id)
        /\ NoDuplicates(commits_to_rewrite)
        /\ Published => DOMAIN parent_map = Reachable(StoreAtStart, target_id)

\* base and target have histories of their own, that of target of two
\* commits, and the run has rewritten and published
C14_Witness ==
    /\ Published
    /\ Reachable(StoreAtStart, base_id) \cap Reachable(StoreAtStart, target_id) = {}
    /\ Len(commits_to_rewrite) >= 2

\* C15: the list is oldest first, a commit comes after each of its parents
\* that the list holds; so when the engine comes to a commit, every parent
\* of it that belongs to the batch has its entry in the translation table.
C15_OldestFirst ==
    /\ ListReturned =>
          \A i, j \in 1..Len(commits_to_rewrite) :
              commits_to_rewrite[j] \in Range(StoreAtStart[commits_to_rewrite[i]].parents)
                  => j < i
    /\ (pc = "execute" /\ idx <= Len(descriptors)) =>
          \A p \in Range(StoreAtStart[commits_to_rewrite[idx]].parents) :
              p \in Batch => p \in DOMAIN parent_map

\* the engine is about to process a merge of two commits of the batch
C15_Witness ==
    /\ pc = "execute"
    /\ idx <= Len(descriptors)
    /\ Len(StoreAtStart[commits_to_rewrite[idx]].parents) = 2
    /\ Range(StoreAtStart[commits_to_rewrite[idx]].parents) \subseteq Batch

\* C16: an entry of the translation table maps an id to itself only when
\* the rewrite is a no-op for it: its author and committer names are the
\* fixed name already and none of its parents was remapped to another id.
C16_SelfMapOnlyIfNoOp ==
    \A o \in DOMAIN parent_map :
        parent_map[o] = o =>
            /\ StoreAtStart[o].author.name = "Dr. Magitulator"
            /\ StoreAtStart[o].committer.name = "Dr. Magitulator"
            /\ \A p \in Range(StoreAtStart[o].parents) :
                  p \in DOMAIN parent_map => parent_map[p] = p

\* one commit is mapped to itself, and another that carries the fixed names
\* is not, a parent of it having got another id
C16_Witness ==
    /\ Published
    /\ \E o \in DOMAIN parent_map : parent_map[o] = o
    /\ \E o \in DOMAIN parent_map :
          /\ StoreAtStart[o].author.name = FixedName
          /\ StoreAtStart[o].committer.name = FixedName
          /\ parent_map[o] # o

\* C18: a parent that the engine keeps as it is, for want of an entry in the
\* translation table, is a commit of the history of base; and when base is
\* target no parent is kept so.
C18_VerbatimParentInBase ==
    /\ (pc = "execute" /\ idx <= Len(descriptors)) =>
          \A p \in Range(descriptors[idx].original_parent_ids) :
              p \notin DOMAIN parent_map =>
                  /\ base_id # target_id
                  /\ p \in Reachable(StoreAtStart, base_id)
    /\ \A o \in DOMAIN parent_map \cap DOMAIN StoreAtStart :
          \A k \in 1..Len(StoreAtStart[o].parents) :
              StoreAtStart[o].parents[k] \notin DOMAIN parent_map =>
                  /\ base_id # target_id
                  /\ StoreAtStart[o].parents[k] \in Reachable(StoreAtStart, base_id)
                  /\ store[parent_map[o]].parents[k] = StoreAtStart[o].parents[k]

\* a merge has been written with two parents kept: the base and a commit
\* below the base
C18_Witness ==
    \E o \in DOMAIN parent_map :
        /\ Len(StoreAtStart[o].parents) = 2
        /\ store[parent_map[o]].parents = StoreAtStart[o].parents
        /\ base_id \in Range(StoreAtStart[o].parents)
        /\ Range(StoreAtStart[o].parents) \cap DOMAIN parent_map = {}

\* C19: get_commits_to_rewrite never appends the base: whatever the graph,
\* base and target, and whatever the order of the walk, the base is in the
\* exclusion set (base other than target) or in the list already (base is
\* target); so with base other than target the list never holds the base,
\* be it a root without parents.
C19_BaseNeverAppended ==
    /\ (/\ pc = "resolve"
        /\ Reachable(store, base_id) \subseteq DOMAIN store
        /\ Reachable(store, target_id) \subseteq DOMAIN store) =>
          \A walk \in TopoWalks(store, target_id) :
              ~AppendsBase(store, base_id, target_id, walk)
    /\ ListReturned =>
          /\ base_id # target_id => base_id \notin Range(commits_to_rewrite)
          /\ base_id = target_id =>
                Cardinality({i \in 1..Len(commits_to_rewrite) :
                                commits_to_rewrite[i] = base_id}) = 1
          /\ Range(commits_to_rewrite) \subseteq Reachable(StoreAtStart, target_id)

\* base is a root outside the history of target, and the list has come back
C19_Witness ==
    /\ ListReturned
    /\ base_id # target_id
    /\ StoreAtStart[base_id].parents = << >>
    /\ base_id \notin Reachable(StoreAtStart, target_id)
    /\ commits_to_rewrite # << >>

\* C20: a list that is not empty ends with target_id; so the tip that the
\* engine returns and mirror publishes is the rewritten target, and every
\* rewritten commit is reachable from it.
C20_TipIsRewrittenTarget ==
    /\ (ListReturned /\ commits_to_rewrite # << >>) =>
          commits_to_rewrite[Len(commits_to_rewrite)] = target_id
    /\ Published =>
          /\ target_id \in DOMAIN parent_map
          /\ last_new_oid = parent_map[target_id]
          /\ refs["refs/heads/feature-magitied"] = parent_map[target_id]
          /\ \A o \in DOMAIN parent_map :
                parent_map[o] \in Reachable(store, parent_map[target_id])

\* a run over three commits has published, its tip another id than the target
C20_Witness ==
    /\ Published
    /\ Len(commits_to_rewrite) >= 3
    /\ parent_map[target_id] # target_id

\* the blobs and trees that an id leads to through the entries of trees, the
\* id itself included
RECURSIVE Subgraph(_)
Subgraph(id) ==
    IF contents[id].kind = "tree"
      THEN {id} \cup UNION {Subgraph(contents[id].data[k]) : k \in 1..Len(contents[id].data)}
      ELSE IF contents[id].kind = "blob" THEN {id} ELSE {}

\* a store that holds, with every tree, the blobs and trees the tree leads to
Closed(repo) == \A id \in DOMAIN repo : Subgraph(id) \subseteq DOMAIN repo

\* the outermost call has returned Ok
CopiedOk == copy_pc = "done" /\ copy_result = "ok"

\* the reads and the writes made since the outermost call began
ReadsOfCall == {src_reads[k] : k \in (CallNow.reads + 1)..Len(src_reads)}
WritesOfCall == {dst_writes[k] : k \in (CallNow.writes + 1)..Len(dst_writes)}

\* C11: two calls of copy_object_recursive for one blob, against a
\* destination that did not hold it, make one write; and a call for an id
\* that the destination holds returns the id, reads nothing from the source
\* and writes nothing, be it the outermost call or a call within.
C11_MemoizedCopy ==
    /\ (/\ CopiedOk
        /\ Len(calls) = 2
        /\ contents[copy_oid].kind = "blob"
        /\ copy_oid \notin DOMAIN calls[1].dst) =>
          /\ dst_writes = <<copy_oid>>
          /\ src_reads = <<copy_oid>>
    /\ (copy_pc = "done" /\ copy_oid \in DOMAIN CallNow.dst) =>
          /\ copy_result = "ok"
          /\ copy_ret = copy_oid
          /\ Len(src_reads) = CallNow.reads
          /\ Len(dst_writes) = CallNow.writes
          /\ dst_repo = CallNow.dst
    /\ copy_pc # "idle" =>
          /\ ReadsOfCall \cap DOMAIN CallNow.dst = {}
          /\ WritesOfCall \cap DOMAIN CallNow.dst = {}
    /\ NoDuplicates(dst_writes)

\* the second call for a blob has returned, the first having written the blob
C11_Witness ==
    /\ CopiedOk
    /\ Len(calls) = 2
    /\ contents[copy_oid].kind = "blob"
    /\ copy_oid \notin DOMAIN calls[1].dst
    /\ Len(dst_writes) = 1

\* C12 as stated: whatever the destination holds at first, a call for a tree
\* that returns Ok returns an id of the destination, and the destination
\* holds the tree and every blob and tree it leads to, with the content of
\* the source.
C12_RoundTripAnyDestination ==
    (CopiedOk /\ contents[copy_oid].kind = "tree") =>
        /\ copy_ret = copy_oid
        /\ copy_ret \in DOMAIN dst_repo
        /\ \A id \in Subgraph(copy_oid) :
              /\ id \in DOMAIN dst_repo
              /\ id \in DOMAIN src_repo => dst_repo[id] = src_repo[id]

\* C12 amended: the same, for a destination that holds with every tree what
\* the tree leads to.
C12_RoundTripClosedDestination ==
    (CopiedOk /\ contents[copy_oid].kind = "tree" /\ Closed(CallNow.dst)) =>
        /\ copy_ret = copy_oid
        /\ copy_ret \in DOMAIN dst_repo
        /\ Closed(dst_repo)
        /\ \A id \in Subgraph(copy_oid) :
              /\ id \in DOMAIN dst_repo
              /\ id \in DOMAIN src_repo => dst_repo[id] = src_repo[id]

\* a tree over a tree over a blob has been copied to a closed destination
\* that held none of them
C12_Witness ==
    /\ CopiedOk
    /\ contents[copy_oid].kind = "tree"
    /\ Closed(CallNow.dst)
    /\ Cardinality(Subgraph(copy_oid)) >= 3
    /\ Subgraph(copy_oid) \cap DOMAIN CallNow.dst = {}
    /\ \E id \in Subgraph(copy_oid) \ {copy_oid} : contents[id].kind = "tree"

\* C17: a tree is written only when the copy of each of its children has
\* returned Ok; and when a copy fails, the error is returned, no tree of the
\* calls in progress is written, and what was written before stays.
C17_TreeAfterChildren ==
    /\ copy_pc # "idle" =>
          \A w \in WritesOfCall :
              contents[w].kind = "tree" =>
                  \A k \in 1..Len(contents[w].data) :
                      /\ contents[w].data[k] \in copied
                      /\ contents[contents[w].data[k]].kind # "commit" =>
                            contents[w].data[k] \in DOMAIN dst_repo
    /\ (copy_pc = "done" /\ copy_result # "ok") =>
          /\ copy_result \in CopyErrors
          /\ copy_ret = NoId
          /\ failed_path # {}
          /\ failed_path \cap DOMAIN dst_repo = {}
          /\ Range(dst_writes) \subseteq DOMAIN dst_repo
          /\ \A id \in DOMAIN CallNow.dst :
                id \in DOMAIN dst_repo /\ dst_repo[id] = CallNow.dst[id]

\* the copy of a tree has failed at a child after an earlier child was written
C17_Witness ==
    /\ copy_pc = "done"
    /\ copy_result \in CopyErrors
    /\ WritesOfCall # {}
    /\ contents[copy_oid].kind = "tree"
    /\ Cardinality(failed_path) >= 2
    /\ \E w \in WritesOfCall : w \in Range(contents[copy_oid].data)

====
